---- MODULE Spec2Model ----
(***************************************************************************)
(* A model of main.py (MPD to MP4 downloader): one interactive run of      *)
(* main(), from FFmpeg discovery to the single download/merge invocation.  *)
(* Strings are sequences of one-character strings, so that strip, replace, *)
(* startswith, endswith, lower, "in", and the os.path / pathlib functions  *)
(* are computed as Python computes them.                                   *)
(***************************************************************************)
EXTENDS Integers, Sequences, FiniteSets, TLC

(***************************************************************************)
(* Bounds of the model                                                     *)
(***************************************************************************)
\* longest run of whitespace/quote characters put before and after an input
MaxWrap == 2
\* largest number of URL-bearing items in a manifest
MaxItems == 2
\* longest run of whitespace put before and after a filename entry
MaxPad == 2

(***************************************************************************)
(* Python str methods                                                      *)
(***************************************************************************)
\* Python's None, for the variables that hold strings or paths
None == <<"None">>

\* str.startswith(p)
StartsWith(s, p) ==
    /\ Len(p) <= Len(s)
    /\ SubSeq(s, 1, Len(p)) = p

\* str.endswith(p)
EndsWith(s, p) ==
    /\ Len(p) <= Len(s)
    /\ SubSeq(s, Len(s) - Len(p) + 1, Len(s)) = p

\* sub in s
Contains(s, sub) ==
    \E i \in 0..(Len(s) - Len(sub)) : SubSeq(s, i + 1, i + Len(sub)) = sub

\* s[n:]
Drop(s, n) == SubSeq(s, n + 1, Len(s))

\* str.replace(old, new): non-overlapping occurrences, left to right
RECURSIVE Replace(_, _, _)
Replace(s, old, new) ==
    IF s = <<>> THEN <<>>
    ELSE IF StartsWith(s, old) THEN new \o Replace(Drop(s, Len(old)), old, new)
    ELSE <<Head(s)>> \o Replace(Tail(s), old, new)

\* str.lstrip(chars)
RECURSIVE LStrip(_, _)
LStrip(s, chars) ==
    IF s # <<>> /\ Head(s) \in chars THEN LStrip(Tail(s), chars) ELSE s

\* str.rstrip(chars)
RECURSIVE RStrip(_, _)
RStrip(s, chars) ==
    IF s # <<>> /\ s[Len(s)] \in chars
    THEN RStrip(SubSeq(s, 1, Len(s) - 1), chars)
    ELSE s

\* str.strip(chars)
Strip(s, chars) == RStrip(LStrip(s, chars), chars)

\* the characters str.strip() removes, as far as the model's alphabet has them
Whitespace == {" ", "\t"}

\* str.lower() on one character of the model's alphabet
LowerChar(c) ==
    CASE c = "M" -> "m"
      [] c = "P" -> "p"
      [] c = "C" -> "c"
      [] OTHER -> c

\* str.lower()
Lower(s) == [i \in 1..Len(s) |-> LowerChar(s[i])]

\* all sequences over chars of length at most n
RECURSIVE SeqsUpTo(_, _)
SeqsUpTo(chars, n) ==
    IF n = 0 THEN {<<>>}
    ELSE LET shorter == SeqsUpTo(chars, n - 1)
         IN  shorter \cup {<<c>> \o t : c \in chars, t \in {u \in shorter : Len(u) = n - 1}}

\* index of the last character of s that is in chars, 0 if none
RECURSIVE LastIndexOf(_, _)
LastIndexOf(s, chars) ==
    IF s = <<>> THEN 0
    ELSE IF s[Len(s)] \in chars THEN Len(s)
    ELSE LastIndexOf(SubSeq(s, 1, Len(s) - 1), chars)

\* str.split(sep) for a one-character separator (any character of seps)
RECURSIVE Split(_, _)
Split(s, seps) ==
    LET i == LastIndexOf(s, seps)
    IN  IF i = 0 THEN <<s>>
        ELSE Append(Split(SubSeq(s, 1, i - 1), seps), Drop(s, i))

\* sep.join(parts)
RECURSIVE Join(_, _)
Join(parts, sep) ==
    IF parts = <<>> THEN <<>>
    ELSE IF Len(parts) = 1 THEN parts[1]
    ELSE parts[1] \o sep \o Join(Tail(parts), sep)

(***************************************************************************)
(* String literals of the program                                          *)
(***************************************************************************)
FileScheme3 == <<"f", "i", "l", "e", ":", "/", "/", "/">>
FileScheme2 == <<"f", "i", "l", "e", ":", "/", "/">>
Http == <<"h", "t", "t", "p", ":", "/", "/">>
Https == <<"h", "t", "t", "p", "s", ":", "/", "/">>
W3Org == <<"w", "3", ".", "o", "r", "g">>
DotMp4 == <<".", "m", "p", "4">>
OutputMp4 == <<"o", "u", "t", "p", "u", "t", ".", "m", "p", "4">>

(***************************************************************************)
(* posixpath                                                               *)
(***************************************************************************)
Slash == <<"/">>
Backslash == <<"\\">>

\* the loop of normpath over the components: drops '' and '.', resolves '..'
RECURSIVE NormComps(_, _, _)
NormComps(comps, acc, rooted) ==
    IF comps = <<>> THEN acc
    ELSE LET comp == Head(comps)
         IN  IF comp = <<>> \/ comp = <<".">> THEN NormComps(Tail(comps), acc, rooted)
             ELSE IF \/ comp # <<".", ".">>
                     \/ (~rooted /\ acc = <<>>)
                     \/ (acc # <<>> /\ acc[Len(acc)] = <<".", ".">>)
                  THEN NormComps(Tail(comps), Append(acc, comp), rooted)
             ELSE IF acc # <<>>
                  THEN NormComps(Tail(comps), SubSeq(acc, 1, Len(acc) - 1), rooted)
             ELSE NormComps(Tail(comps), acc, rooted)

\* the number of leading slashes posixpath.normpath keeps: 0, 1 or 2
PosixInitialSlashes(path) ==
    IF ~StartsWith(path, Slash) THEN 0
    ELSE IF StartsWith(path, <<"/", "/">>) /\ ~StartsWith(path, <<"/", "/", "/">>) THEN 2
    ELSE 1

PosixNormpath(path) ==
    IF path = <<>> THEN <<".">>
    ELSE LET n == PosixInitialSlashes(path)
             body == Join(NormComps(Split(path, {"/"}), <<>>, n > 0), Slash)
             res == [i \in 1..n |-> "/"] \o body
         IN  IF res = <<>> THEN <<".">> ELSE res

PosixJoin(a, b) ==
    IF StartsWith(b, Slash) THEN b
    ELSE IF a = <<>> \/ EndsWith(a, Slash) THEN a \o b
    ELSE a \o Slash \o b

PosixAbspath(cwd, path) ==
    PosixNormpath(IF StartsWith(path, Slash) THEN path ELSE PosixJoin(cwd, path))

PosixDirname(p) ==
    LET head == SubSeq(p, 1, LastIndexOf(p, {"/"}))
    IN  IF head # <<>> /\ LStrip(head, {"/"}) # <<>> THEN RStrip(head, {"/"}) ELSE head

PosixBasename(p) == Drop(p, LastIndexOf(p, {"/"}))

(***************************************************************************)
(* ntpath, for paths with a drive letter or no drive (no UNC shares)       *)
(***************************************************************************)
NtSeps == {"\\", "/"}

NtDrive(p) == IF Len(p) >= 2 /\ p[2] = ":" THEN SubSeq(p, 1, 2) ELSE <<>>

NtRest(p) == Drop(p, Len(NtDrive(p)))

NtNormpath(path) ==
    LET drive == NtDrive(path)
        rest == NtRest(path)
        rooted == rest # <<>> /\ Head(rest) \in NtSeps
        body == Join(NormComps(Split(rest, NtSeps), <<>>, rooted), Backslash)
        res == drive \o (IF rooted THEN Backslash ELSE <<>>) \o body
    IN  IF res = <<>> THEN <<".">> ELSE res

NtJoin(a, b) ==
    IF NtDrive(b) # <<>> \/ (b # <<>> /\ Head(b) \in NtSeps) THEN b
    ELSE IF a = <<>> \/ a[Len(a)] \in (NtSeps \cup {":"}) THEN a \o b
    ELSE a \o Backslash \o b

NtAbspath(cwd, path) ==
    NtNormpath(IF NtDrive(path) # <<>> THEN path ELSE NtJoin(cwd, path))

NtDirname(p) ==
    LET rest == NtRest(p)
        head == SubSeq(rest, 1, LastIndexOf(rest, NtSeps))
        stripped == RStrip(head, NtSeps)
    IN  NtDrive(p) \o (IF stripped # <<>> THEN stripped ELSE head)

NtBasename(p) == Drop(NtRest(p), LastIndexOf(NtRest(p), NtSeps))

(***************************************************************************)
(* pathlib.Path(p).as_uri()                                                *)
(***************************************************************************)
\* urllib.parse.quote of one character; letters, digits and "_.-~/" are safe
QuoteChar(c) ==
    CASE c = " " -> <<"%", "2", "0">>
      [] c = "%" -> <<"%", "2", "5">>
      [] c = "\"" -> <<"%", "2", "2">>
      [] c = "'" -> <<"%", "2", "7">>
      [] c = ":" -> <<"%", "3", "A">>
      [] c = "\\" -> <<"%", "5", "C">>
      [] c = "\t" -> <<"%", "0", "9">>
      [] OTHER -> <<c>>

RECURSIVE Quote(_)
Quote(s) == IF s = <<>> THEN <<>> ELSE QuoteChar(Head(s)) \o Quote(Tail(s))

\* the components pathlib keeps: no empty and no '.' component
RECURSIVE PureComps(_)
PureComps(comps) ==
    IF comps = <<>> THEN <<>>
    ELSE IF Head(comps) = <<>> \/ Head(comps) = <<".">> THEN PureComps(Tail(comps))
    ELSE <<Head(comps)>> \o PureComps(Tail(comps))

ValueError == <<"ValueError">>

\* PurePosixPath(p).as_uri(); ValueError for a relative path
PosixAsUri(p) ==
    LET n == PosixInitialSlashes(p)
        str == [i \in 1..n |-> "/"] \o Join(PureComps(Split(p, {"/"})), Slash)
    IN  IF n = 0 THEN ValueError ELSE FileScheme2 \o Quote(str)

\* PureWindowsPath(p).as_uri(); ValueError unless p has a drive and a root
NtAsUri(p) ==
    LET drive == NtDrive(p)
        rest == NtRest(p)
        rooted == rest # <<>> /\ Head(rest) \in NtSeps
        posix == Slash \o Join(PureComps(Split(rest, NtSeps)), Slash)
    IN  IF drive = <<>> \/ ~rooted THEN ValueError
        ELSE FileScheme3 \o drive \o Quote(posix)

(***************************************************************************)
(* The environment of a run: platform, working directory, filesystem       *)
(***************************************************************************)
VARIABLES
    osname,        \* os.name: "posix" or "nt"
    pc,            \* position of the run in main()
    ffmpeg_path,   \* main.py:80
    user_input,    \* main.py:84
    url,           \* main.py:85
    name_entry,    \* main.py:101: what input() returned
    output_name,   \* main.py:101-107
    ydl_opts,      \* main.py:118-141
    local_path,    \* main.py:133, 157-160
    mpd_dir,       \* main.py:163
    mpd_filename,  \* main.py:164
    mpd_content,   \* main.py:196-197: what open/read gave
    remote_url,    \* main.py:213, 225-232
    calls,         \* the external invocations made so far, in order
    log,           \* the error, warning and success messages printed so far
    raised         \* the exception that propagated out of main(), or None

vars == <<osname, pc, ffmpeg_path, user_input, url, name_entry, output_name, ydl_opts,
          local_path, mpd_dir, mpd_filename, mpd_content, remote_url,
          calls, log, raised>>

OsNames == {"posix", "nt"}

\* os.getcwd()
Cwd(os) == IF os = "nt" THEN <<"C", ":", "\\", "d">> ELSE <<"/", "d">>

\* the regular files of the filesystem, by canonical absolute path
Files(os) ==
    IF os = "nt" THEN {<<"C", ":", "\\", "d", "\\", "a">>, <<"C", ":", "\\", "d", "\\", "a", " ", "b">>}
    ELSE {<<"/", "d", "/", "a">>, <<"/", "d", "/", "a", " ", "b">>}

\* the directories of the filesystem
Dirs(os) ==
    IF os = "nt" THEN {<<"C", ":", "\\">>, <<"C", ":", "\\", "d">>}
    ELSE {<<"/">>, <<"/", "d">>}

Abspath(os, p) == IF os = "nt" THEN NtAbspath(Cwd(os), p) ELSE PosixAbspath(Cwd(os), p)
Dirname(os, p) == IF os = "nt" THEN NtDirname(p) ELSE PosixDirname(p)
Basename(os, p) == IF os = "nt" THEN NtBasename(p) ELSE PosixBasename(p)
PathJoin(os, a, b) == IF os = "nt" THEN NtJoin(a, b) ELSE PosixJoin(a, b)
AsUri(os, p) == IF os = "nt" THEN NtAsUri(p) ELSE PosixAsUri(p)

\* the file the kernel resolves a path to: POSIX treats a leading "//" as "/"
Resolve(os, p) ==
    LET abs == Abspath(os, p)
    IN  IF os = "posix" /\ StartsWith(abs, <<"/", "/">>) THEN Tail(abs) ELSE abs

\* os.path.isfile(p)
IsFile(os, p) == p # <<>> /\ Resolve(os, p) \in Files(os)

\* os.path.isdir(p)
IsDir(os, p) == p # <<>> /\ Resolve(os, p) \in Dirs(os)

\* os.path.exists(p)
Exists(os, p) == IsFile(os, p) \/ IsDir(os, p)

(***************************************************************************)
(* validate_and_prepare_url                                                *)
(***************************************************************************)
\* cleaned_input of main.py:59
CleanedInput(raw) == Strip(Strip(Strip(raw, Whitespace), {"\""}), {"'"})

\* the value returned, or the ValueError raised
validate_and_prepare_url(os, raw) ==
    IF raw = <<>> THEN [ok |-> FALSE, value |-> "Input cannot be empty"]
    ELSE LET cleaned_input == CleanedInput(raw)
         IN  IF cleaned_input = <<>>
             THEN [ok |-> FALSE, value |-> "Input cannot be empty after cleaning"]
             ELSE IF IsFile(os, cleaned_input)
             THEN [ok |-> TRUE, value |-> AsUri(os, Abspath(os, cleaned_input))]
             ELSE [ok |-> TRUE, value |-> cleaned_input]

(***************************************************************************)
(* Output filename of main.py:101-107                                      *)
(***************************************************************************)
\* the suffix test without lower()
NormalizeOutputNameCaseSensitive(entry) ==
    LET stripped == Strip(entry, Whitespace)
        named == IF stripped = <<>> THEN OutputMp4 ELSE stripped
    IN  IF EndsWith(named, DotMp4) THEN named ELSE named \o DotMp4

NormalizeOutputName(entry) ==
    LET stripped == Strip(entry, Whitespace)
        named == IF stripped = <<>> THEN OutputMp4 ELSE stripped
    IN  IF EndsWith(Lower(named), DotMp4) THEN named ELSE named \o DotMp4

(***************************************************************************)
(* Inputs of a run                                                         *)
(***************************************************************************)
\* end of input at a prompt: input() raises EOFError
EOF == <<"EOF">>

QuoteChars == {" ", "\"", "'"}

Wrappers == SeqsUpTo(QuoteChars, MaxWrap)

\* a remote manifest URL, and a file:// string that names no file
RemoteUrl == <<"h", "t", "t", "p", ":", "/", "/", "h", "/", "m">>
FileUrlX == <<"f", "i", "l", "e", ":", "/", "/", "x">>

\* inputs that get every wrapper: nothing, a URL, a file:// string
WrappedCores == {<<>>, RemoteUrl, FileUrlX}

\* paths of the platform (absolute, relative, with a space) and a file:// URI
PathCores(os) ==
    IF os = "nt"
    THEN {<<"C", ":", "\\", "d", "\\", "a">>, <<"C", ":", "/", "d", "/", "a">>, <<"a">>, <<"C", ":", "\\", "d", "\\", "a", " ", "b">>, <<"f", "i", "l", "e", ":", "/", "/", "/", "C", ":", "/", "d", "/", "a">>}
    ELSE {<<"/", "d", "/", "a">>, <<"/", "/", "d", "/", "a">>, <<"a">>, <<"/", "d", "/", "a", " ", "b">>, <<"/", "/", "d", "/", "a", " ", "b">>, <<"f", "i", "l", "e", ":", "/", "/", "/", "/", "d", "/", "a">>}

\* what the user types at the first prompt
RawInputs(os) ==
    {pre \o core \o post : pre \in Wrappers, post \in Wrappers, core \in WrappedCores}
    \cup {q \o core \o q : q \in {<<>>, <<"\"">>}, core \in PathCores(os)}

\* what the user types at the second prompt, in a full run
NameEntries == {<<>>, <<"v">>, <<"v", ".", "M", "P", "4">>}

Pads == SeqsUpTo(Whitespace, MaxPad)
NameStems == {<<>>, <<"v">>, <<"v", " ", "w">>, <<"M", "P", "4">>}
NameSuffixes == {<<>>, DotMp4, <<".", "M", "P", "4">>, <<".", "m", "p">>, <<".", "m", "p", "4", "x">>}

\* what the user types at the second prompt, when only the filename is studied
AllNameEntries ==
    {pre \o stem \o suffix \o post :
        pre \in Pads, post \in Pads, stem \in NameStems, suffix \in NameSuffixes}

(***************************************************************************)
(* The manifest: the URL-bearing elements and attributes of its text       *)
(***************************************************************************)
PatternKinds == {"BaseURL", "media", "initialization", "sourceURL", "SegmentURL"}

\* a relative reference, an XML-schema URL, two CDN URLs, and a CDN URL whose
\* path has the text w3.org
RelText == <<"s">>
UrlW3 == <<"h", "t", "t", "p", ":", "/", "/", "w", "w", "w", ".", "w", "3", ".", "o", "r", "g", "/", "n">>
UrlCdn == <<"h", "t", "t", "p", "s", ":", "/", "/", "c", ".", "i", "o", "/", "s">>
UrlCdn2 == <<"h", "t", "t", "p", ":", "/", "/", "c", ".", "i", "o", "/", "t">>
UrlCdnW3 == <<"h", "t", "t", "p", "s", ":", "/", "/", "c", ".", "i", "o", "/", "w", "3", ".", "o", "r", "g">>

Items ==
    {[kind |-> k, text |-> u] : k \in PatternKinds, u \in {UrlW3, UrlCdn, UrlCdn2, UrlCdnW3}}
    \cup {[kind |-> k, text |-> RelText] : k \in {"BaseURL", "media"}}
    \cup {[kind |-> "xmlns", text |-> UrlW3]}

\* the text of one item in the file
Render(item) ==
    CASE item.kind = "BaseURL" -> <<"<", "B", "a", "s", "e", "U", "R", "L", ">">> \o item.text \o <<"<", "/", "B", "a", "s", "e", "U", "R", "L", ">">>
      [] item.kind = "SegmentURL" -> <<"<", "S", "e", "g", "m", "e", "n", "t", "U", "R", "L", ">">> \o item.text \o <<"<", "/", "S", "e", "g", "m", "e", "n", "t", "U", "R", "L", ">">>
      [] item.kind = "media" -> <<" ", "m", "e", "d", "i", "a", "=", "\"">> \o item.text \o <<"\"">>
      [] item.kind = "initialization" -> <<" ", "i", "n", "i", "t", "i", "a", "l", "i", "z", "a", "t", "i", "o", "n", "=", "\"">> \o item.text \o <<"\"">>
      [] item.kind = "sourceURL" -> <<" ", "s", "o", "u", "r", "c", "e", "U", "R", "L", "=", "\"">> \o item.text \o <<"\"">>
      [] OTHER -> <<" ", "x", "m", "l", "n", "s", "=", "\"">> \o item.text \o <<"\"">>

\* the text of the file
RECURSIVE MpdText(_)
MpdText(items) ==
    IF items = <<>> THEN <<>> ELSE Render(Head(items)) \o MpdText(Tail(items))

\* what reading the file gives: its items, or the error open/read raises
ManifestContents ==
    {[status |-> "ok", items |-> its] : its \in SeqsUpTo(Items, MaxItems)}
    \cup {[status |-> e, items |-> <<>>] : e \in {"IOError", "UnicodeDecodeError"}}

\* main.py:200
HasRemoteUrls(items) ==
    Contains(MpdText(items), Http) \/ Contains(MpdText(items), Https)

IsHttpText(text) == StartsWith(text, Http) \/ StartsWith(text, Https)

\* re.search of the pattern of one kind, then group(1).strip(): the text of
\* the first item of the kind that starts with http:// or https://, or None
RECURSIVE SearchPattern(_, _)
SearchPattern(items, kind) ==
    IF items = <<>> THEN None
    ELSE IF Head(items).kind = kind /\ IsHttpText(Head(items).text)
         THEN Strip(Head(items).text, Whitespace)
    ELSE SearchPattern(Tail(items), kind)

\* media_patterns with its first two patterns exchanged
media_patterns_exchanged == <<"initialization", "media", "sourceURL", "SegmentURL">>

\* main.py:218-223
media_patterns == <<"media", "initialization", "sourceURL", "SegmentURL">>

\* main.py:231
SkipsCandidate(potential_url) == Contains(potential_url, W3Org)

\* main.py:225-234: the loop over media_patterns
RECURSIVE ScanPatterns(_, _)
ScanPatterns(items, patterns) ==
    IF patterns = <<>> THEN None
    ELSE LET potential_url == SearchPattern(items, Head(patterns))
         IN  IF potential_url # None /\ ~SkipsCandidate(potential_url)
             THEN potential_url
             ELSE ScanPatterns(items, Tail(patterns))

\* main.py:211-234: remote_url, None when nothing usable was found
ExtractRemoteUrl(items) ==
    LET base_url_match == SearchPattern(items, "BaseURL")
    IN  IF base_url_match # None THEN base_url_match
        ELSE ScanPatterns(items, media_patterns)

(***************************************************************************)
(* main()                                                                  *)
(***************************************************************************)
\* the paths get_ffmpeg_path can return
BundledFfmpeg == <<"bundled">>
SystemFfmpeg == <<"system">>

\* ydl_opts and mpd_content before they are assigned
NoOpts == [outtmpl |-> None, referer |-> None, ffmpeg_location |-> None]
NotRead == [status |-> "unread", items |-> <<>>]

Init ==
    /\ osname \in OsNames
    /\ pc = "get_ffmpeg"
    /\ ffmpeg_path = None
    /\ user_input = None
    /\ url = None
    /\ name_entry = None
    /\ output_name = None
    /\ ydl_opts = NoOpts
    /\ local_path = None
    /\ mpd_dir = None
    /\ mpd_filename = None
    /\ mpd_content = NotRead
    /\ remote_url = None
    /\ calls = <<>>
    /\ log = <<>>
    /\ raised = "none"

\* the run returns from main()
Return(msgs) ==
    /\ pc' = "done"
    /\ log' = log \o msgs

\* an exception leaves main() uncaught
Crash(exc) ==
    /\ pc' = "crashed"
    /\ raised' = exc

\* main.py:80 and get_ffmpeg_path, main.py:6-37
GetFfmpegPath ==
    /\ pc = "get_ffmpeg"
    /\ \E imageio \in {"ok", "ImportError", "Exception"},
          which \in {"found", "none", "Exception"} :
            ffmpeg_path' = IF imageio = "ok" THEN BundledFfmpeg
                           ELSE IF which = "found" THEN SystemFfmpeg
                           ELSE None
    /\ pc' = "ask_input"
    /\ UNCHANGED <<osname, user_input, url, name_entry, output_name, ydl_opts, local_path,
                   mpd_dir, mpd_filename, mpd_content, remote_url, calls, log, raised>>

\* main.py:83-91
AskInput ==
    /\ pc = "ask_input"
    /\ \E raw \in RawInputs(osname) \cup {EOF} :
        IF raw = EOF
        THEN /\ Return(<<"Error: Failed to process input">>)
             /\ UNCHANGED <<user_input, url>>
        ELSE LET res == validate_and_prepare_url(osname, raw)
             IN  /\ user_input' = raw
                 /\ IF res.ok
                    THEN /\ url' = res.value
                         /\ pc' = "ask_name"
                         /\ log' = log
                    ELSE /\ Return(<<res.value>>)
                         /\ url' = url
    /\ UNCHANGED <<osname, ffmpeg_path, name_entry, output_name, ydl_opts, local_path,
                   mpd_dir, mpd_filename, mpd_content, remote_url, calls, raised>>

\* main.py:98-107
AskOutputName(entries) ==
    /\ pc = "ask_name"
    /\ \E entry \in entries \cup {EOF} :
        IF entry = EOF
        THEN /\ Crash("EOFError")
             /\ UNCHANGED <<name_entry, output_name>>
        ELSE /\ name_entry' = entry
             /\ output_name' = NormalizeOutputName(entry)
             /\ pc' = "configure"
             /\ raised' = raised
    /\ UNCHANGED <<osname, ffmpeg_path, user_input, url, ydl_opts, local_path,
                   mpd_dir, mpd_filename, mpd_content, remote_url, calls, log>>

\* main.py:133 and 157: the path taken back out of the URL
PathOfUrl(u) == Replace(Replace(u, FileScheme3, <<>>), FileScheme2, <<>>)

\* main.py:118-143
Configure ==
    /\ pc = "configure"
    /\ LET opts == [outtmpl |-> output_name, referer |-> None,
                    ffmpeg_location |-> ffmpeg_path]
       IN  IF StartsWith(url, FileScheme2)
           THEN LET base_dir == Dirname(osname, PathOfUrl(url))
                    uri == AsUri(osname, base_dir)
                IN  /\ local_path' = PathOfUrl(url)
                    /\ IF uri = ValueError
                       THEN /\ Crash("ValueError")
                            /\ ydl_opts' = [opts EXCEPT !.ffmpeg_location = None]
                       ELSE /\ ydl_opts' = [opts EXCEPT !.referer = uri \o Slash]
                            /\ pc' = "dispatch"
                            /\ raised' = raised
           ELSE /\ ydl_opts' = opts
                /\ pc' = "dispatch"
                /\ UNCHANGED <<local_path, raised>>
    /\ UNCHANGED <<osname, ffmpeg_path, user_input, url, name_entry, output_name,
                   mpd_dir, mpd_filename, mpd_content, remote_url, calls, log>>

\* main.py:146-154
Dispatch ==
    /\ pc = "dispatch"
    /\ LET is_local_file == StartsWith(url, FileScheme2)
       IN  IF is_local_file
           THEN IF ffmpeg_path = None
                THEN Return(<<"Error: FFmpeg is required">>)
                ELSE pc' = "local_paths" /\ log' = log
           ELSE pc' = "ytdlp_remote" /\ log' = log
    /\ UNCHANGED <<osname, ffmpeg_path, user_input, url, name_entry, output_name, ydl_opts,
                   local_path, mpd_dir, mpd_filename, mpd_content, remote_url,
                   calls, raised>>

\* main.py:156-182
LocalPaths ==
    /\ pc = "local_paths"
    /\ LET p == PathOfUrl(url)
           lp == IF osname = "nt" /\ StartsWith(p, Slash) THEN Tail(p) ELSE p
           dir == Dirname(osname, Abspath(osname, lp))
       IN  /\ local_path' = lp
           /\ mpd_dir' = dir
           /\ mpd_filename' = Basename(osname, lp)
           /\ log' = IF IsDir(osname, dir) THEN log
                     ELSE Append(log, "Error listing directory")
    /\ pc' = "check_exists"
    /\ UNCHANGED <<osname, ffmpeg_path, user_input, url, name_entry, output_name, ydl_opts,
                   mpd_content, remote_url, calls, raised>>

\* main.py:185
mpd_full_path == PathJoin(osname, mpd_dir, mpd_filename)

\* main.py:184-191
CheckExists ==
    /\ pc = "check_exists"
    /\ IF ~Exists(osname, mpd_full_path)
       THEN Return(<<"Error: MPD file does not exist">>)
       ELSE pc' = "inspect" /\ log' = log
    /\ UNCHANGED <<osname, ffmpeg_path, user_input, url, name_entry, output_name, ydl_opts,
                   local_path, mpd_dir, mpd_filename, mpd_content, remote_url,
                   calls, raised>>

\* main.py:193-240 and 253-259
InspectManifest ==
    /\ pc = "inspect"
    /\ \E content \in ManifestContents :
        /\ mpd_content' = content
        /\ IF content.status # "ok"
           THEN /\ log' = Append(log, "Warning: Could not read MPD file")
                /\ pc' = "ffmpeg"
                /\ remote_url' = remote_url
           ELSE IF HasRemoteUrls(content.items)
           THEN LET found == ExtractRemoteUrl(content.items)
                IN  /\ remote_url' = found
                    /\ IF found = None
                       THEN Return(<<"Warning: Could not extract a valid media URL from MPD">>)
                       ELSE pc' = "ytdlp_local" /\ log' = log
           ELSE /\ log' = Append(log, "Info: MPD file contains only local/relative paths")
                /\ pc' = "ffmpeg"
                /\ remote_url' = remote_url
    /\ UNCHANGED <<osname, ffmpeg_path, user_input, url, name_entry, output_name, ydl_opts,
                   local_path, mpd_dir, mpd_filename, calls, raised>>

\* a call of the generic downloader, main.py:245-246 and 315-317
Download(target, result) ==
    [tool |-> "yt_dlp", target |-> target, result |-> result, cwd |-> Cwd(osname),
     referer |-> ydl_opts.referer, ffmpeg_location |-> ydl_opts.ffmpeg_location,
     outtmpl |-> ydl_opts.outtmpl, output |-> None]

\* main.py:242-252 without the return at line 252: the media tool runs next
YtdlpLocalFallsThrough ==
    /\ pc = "ytdlp_local"
    /\ \E result \in {"ok", "Exception"} :
        /\ calls' = Append(calls, Download(remote_url, result))
        /\ log' = log \o (IF result = "ok" THEN <<"Success">> ELSE <<"Error: yt-dlp failed">>)
    /\ pc' = "ffmpeg"
    /\ UNCHANGED <<osname, ffmpeg_path, user_input, url, name_entry, output_name, ydl_opts,
                   local_path, mpd_dir, mpd_filename, mpd_content, remote_url, raised>>

\* main.py:242-252
YtdlpLocal ==
    /\ pc = "ytdlp_local"
    /\ \E result \in {"ok", "Exception"} :
        /\ calls' = Append(calls, Download(remote_url, result))
        /\ Return(IF result = "ok" THEN <<"Success">> ELSE <<"Error: yt-dlp failed">>)
    /\ UNCHANGED <<osname, ffmpeg_path, user_input, url, name_entry, output_name, ydl_opts,
                   local_path, mpd_dir, mpd_filename, mpd_content, remote_url, raised>>

\* the media-tool subprocess, main.py:266-288
Popen(result) ==
    [tool |-> "ffmpeg", target |-> mpd_filename, result |-> result, cwd |-> mpd_dir,
     referer |-> None, ffmpeg_location |-> ffmpeg_path,
     outtmpl |-> None, output |-> Abspath(osname, output_name)]

\* main.py:261-308
RunFfmpeg ==
    /\ pc = "ffmpeg"
    /\ \E result \in {"0", "1", "Exception"} :
        /\ calls' = Append(calls, Popen(result))
        /\ Return(CASE result = "0" -> <<"Success">>
                   [] result = "1" -> <<"Error: FFmpeg failed with return code">>
                   [] OTHER -> <<"Error: Failed to process with FFmpeg">>)
    /\ UNCHANGED <<osname, ffmpeg_path, user_input, url, name_entry, output_name, ydl_opts,
                   local_path, mpd_dir, mpd_filename, mpd_content, remote_url, raised>>

\* main.py:310-325
YtdlpRemote ==
    /\ pc = "ytdlp_remote"
    /\ \E result \in {"ok", "DownloadError", "Exception"} :
        /\ calls' = Append(calls, Download(url, result))
        /\ Return(CASE result = "ok" -> <<"Success">>
                   [] result = "DownloadError" -> <<"Error: Download failed">>
                   [] OTHER -> <<"Error: An unexpected error occurred">>)
    /\ UNCHANGED <<osname, ffmpeg_path, user_input, url, name_entry, output_name, ydl_opts,
                   local_path, mpd_dir, mpd_filename, mpd_content, remote_url, raised>>

AskOutputNameRun == AskOutputName(NameEntries)

Next ==
    \/ GetFfmpegPath
    \/ AskInput
    \/ AskOutputNameRun
    \/ Configure
    \/ Dispatch
    \/ LocalPaths
    \/ CheckExists
    \/ InspectManifest
    \/ YtdlpLocal
    \/ RunFfmpeg
    \/ YtdlpRemote

Spec == Init /\ [][Next]_vars

(***************************************************************************)
(* The filename prompt alone: the run stands at the second prompt (after   *)
(* a remote URL was given) and any filename entry is typed                 *)
(***************************************************************************)
InitName ==
    /\ osname \in OsNames
    /\ pc = "ask_name"
    /\ ffmpeg_path \in {None, SystemFfmpeg}
    /\ user_input = RemoteUrl
    /\ url = RemoteUrl
    /\ name_entry = None
    /\ output_name = None
    /\ ydl_opts = NoOpts
    /\ local_path = None
    /\ mpd_dir = None
    /\ mpd_filename = None
    /\ mpd_content = NotRead
    /\ remote_url = None
    /\ calls = <<>>
    /\ log = <<>>
    /\ raised = "none"

AskOutputNameAny == AskOutputName(AllNameEntries)

NextName == AskOutputNameAny

SpecName == InitName /\ [][NextName]_vars

(***************************************************************************)
(* Vocabulary of the properties                                            *)
(***************************************************************************)
Ended == pc \in {"done", "crashed"}

InLog(msg) == \E i \in 1..Len(log) : log[i] = msg

Asked == user_input # None

\* the input is empty or has only whitespace and quote characters
QuoteOnly(raw) == \A i \in 1..Len(raw) : raw[i] \in Whitespace \cup {"\"", "'"}

\* the spec's trimming: whitespace and quote characters, from both ends
Trimmed(raw) == Strip(raw, Whitespace \cup {"\"", "'"})

\* the input names an existing regular file (a Local reference)
LocalInput == Asked /\ Trimmed(user_input) # <<>> /\ IsFile(osname, Trimmed(user_input))

\* the input is a Remote reference
RemoteInput == Asked /\ Trimmed(user_input) # <<>> /\ ~IsFile(osname, Trimmed(user_input))

\* the canonical absolute path of the file the input names
InputFile == Resolve(osname, Trimmed(user_input))

InLocalPath == pc \in {"local_paths", "check_exists", "inspect", "ytdlp_local", "ffmpeg"}

(***************************************************************************)
(* C1                                                                      *)
(***************************************************************************)
\* C1: for a Remote reference (trimmed input non-empty, not an existing
\* regular file) the run delegates to the downloader with exactly the trimmed
\* string and never enters the local-manifest path: no FFmpeg requirement, no
\* manifest check or inspection, no media-tool call, no Referer header.
C1_RemoteAlwaysDelegates ==
    RemoteInput =>
        /\ ~InLocalPath
        /\ ydl_opts.referer = None
        /\ ~InLog("Error: FFmpeg is required")
        /\ mpd_content = NotRead
        /\ raised # "ValueError"
        /\ \A i \in 1..Len(calls) :
              calls[i].tool = "yt_dlp" /\ calls[i].target = Trimmed(user_input)
        /\ pc = "done" => Len(calls) = 1

(***************************************************************************)
(* C2                                                                      *)
(***************************************************************************)
\* the run ended and the manifest, as far as it was read, has no http(s) text
EndedOnHttpFreeManifest ==
    /\ pc = "done" \/ (pc = "crashed" /\ raised # "EOFError")
    /\ \/ mpd_content = NotRead
       \/ (mpd_content.status = "ok" /\ ~HasRemoteUrls(mpd_content.items))

\* C2: for an input naming an existing regular file, with a media binary
\* available and a manifest without http:// and https://, the run invokes the
\* media tool (never the downloader) on exactly the file resolution found: the
\* path recovered from the file:// URI is the input's canonical absolute path,
\* the input argument is its file name, the working directory its directory.
C2_MediaToolOnResolvedFile ==
    (LocalInput /\ ffmpeg_path # None /\ EndedOnHttpFreeManifest) =>
        /\ Len(calls) = 1
        /\ calls[1].tool = "ffmpeg"
        /\ Resolve(osname, local_path) = InputFile
        /\ calls[1].target = Basename(osname, InputFile)
        /\ calls[1].cwd = Dirname(osname, InputFile)

(***************************************************************************)
(* C3                                                                      *)
(***************************************************************************)
\* C3: the media subprocess is started only after the manifest was read as
\* UTF-8 text without http:// and https://; when reading or decoding fails the
\* failure is reported and neither the media tool nor the downloader starts.
C3_MediaToolOnlyAfterCleanRead ==
    /\ (\E i \in 1..Len(calls) : calls[i].tool = "ffmpeg") =>
          (mpd_content.status = "ok" /\ ~HasRemoteUrls(mpd_content.items))
    /\ mpd_content.status \in {"IOError", "UnicodeDecodeError"} =>
          (calls = <<>> /\ InLog("Warning: Could not read MPD file"))

(***************************************************************************)
(* C4                                                                      *)
(***************************************************************************)
\* C4: an input that is empty or has only whitespace and single/double quote
\* characters, in any mix and order, fails resolution with the invalid-input
\* error; the run ends without the filename prompt and without any invocation.
C4_QuoteOnlyInputIsInvalid ==
    (Asked /\ QuoteOnly(user_input)) =>
        /\ pc = "done"
        /\ log \in {<<"Input cannot be empty">>, <<"Input cannot be empty after cleaning">>}
        /\ url = None
        /\ name_entry = None
        /\ calls = <<>>

(***************************************************************************)
(* C5                                                                      *)
(***************************************************************************)
\* C5: for an input naming an existing regular file, when no media binary was
\* discovered, the run ends with the FFmpeg-required error as its outcome,
\* without reading the manifest and without any invocation.
C5_LocalWithoutFfmpegFails ==
    (LocalInput /\ ffmpeg_path = None /\ Ended /\ raised # "EOFError") =>
        /\ pc = "done"
        /\ log = <<"Error: FFmpeg is required">>
        /\ mpd_content = NotRead
        /\ calls = <<>>

(***************************************************************************)
(* C6                                                                      *)
(***************************************************************************)
\* the positions of the items a pattern can match
Matches(items, kind) ==
    {i \in 1..Len(items) : items[i].kind = kind /\ IsHttpText(items[i].text)}

Least(S) == CHOOSE i \in S : \A j \in S : i <= j

\* the matched text of a pattern that has a match
MatchOf(items, kind) == items[Least(Matches(items, kind))].text

\* the pattern has a match and the match is kept (it has no w3.org text)
Usable(items, kind) ==
    Matches(items, kind) # {} /\ ~Contains(MatchOf(items, kind), W3Org)

PatternOrder == <<"media", "initialization", "sourceURL", "SegmentURL">>

\* the URL the precedence rule selects, None when it selects nothing
SelectedUrl(items) ==
    IF Matches(items, "BaseURL") # {} THEN MatchOf(items, "BaseURL")
    ELSE LET usable == {k \in 1..Len(PatternOrder) : Usable(items, PatternOrder[k])}
         IN  IF usable = {} THEN None
             ELSE MatchOf(items, PatternOrder[Least(usable)])

InspectedRemote ==
    mpd_content.status = "ok" /\ HasRemoteUrls(mpd_content.items)

Authority(u) == IF StartsWith(u, Https) THEN Drop(u, Len(Https)) ELSE Drop(u, Len(Http))

Host(u) == Head(Split(Authority(u), {"/"}))

\* the host is the XML-schema domain
HostIsW3(u) == Host(u) = W3Org \/ EndsWith(Host(u), <<".">> \o W3Org)

Unresolvable == InLog("Warning: Could not extract a valid media URL from MPD")

\* C7: for a local manifest with http:// or https:// in its text, the run
\* fails as unresolvable (no downloader, no media tool) exactly when there is
\* no BaseURL element with http(s) text and each of the four patterns has no
\* match or a match whose host is w3.org; a URL with another host is never
\* discarded because w3.org occurs elsewhere in it.
C7_UnresolvableIffOnlyW3Hosts ==
    (InspectedRemote /\ pc = "done") =>
        /\ Unresolvable <=>
              /\ Matches(mpd_content.items, "BaseURL") = {}
              /\ \A k \in 1..Len(PatternOrder) :
                    \/ Matches(mpd_content.items, PatternOrder[k]) = {}
                    \/ HostIsW3(MatchOf(mpd_content.items, PatternOrder[k]))
        /\ Unresolvable => calls = <<>>

(***************************************************************************)
(* C8                                                                      *)
(***************************************************************************)
\* C8: every run of main ends gracefully: whatever error is raised at any
\* step, it is caught inside main; no exception propagates out of main.
C8_NoExceptionEscapes == pc # "crashed" /\ raised = "none"

(***************************************************************************)
(* C9                                                                      *)
(***************************************************************************)
Failed(call) == call.result \notin {"ok", "0"}

\* C9: a run makes at most one external invocation (downloader plus media
\* tool); nothing is retried or used as a fallback: after the downloader
\* raises in the local-manifest path the media tool is not started, after the
\* media tool exits non-zero the downloader is not started, and no success
\* message is printed in a run whose invocation failed.
C9_AtMostOneInvocation ==
    /\ Len(calls) <= 1
    /\ calls # <<>> => pc = "done"
    /\ \A i \in 1..Len(calls) : Failed(calls[i]) => ~InLog("Success")

\* the downloader raised in the local-manifest path and the run ended there
C9_Witness ==
    /\ pc = "done"
    /\ InspectedRemote
    /\ Len(calls) = 1
    /\ calls[1].tool = "yt_dlp"
    /\ calls[1].result = "Exception"
    /\ log = <<"Error: yt-dlp failed">>

(***************************************************************************)
(* C10                                                                     *)
(***************************************************************************)
Named == name_entry # None /\ output_name # None

\* the normalization as the claim words it, applied to a string
ClaimedName(entry) ==
    IF Strip(entry, Whitespace) = <<>> THEN OutputMp4
    ELSE IF EndsWith(Lower(entry), DotMp4) THEN entry
    ELSE entry \o DotMp4

\* C10 as stated: an empty or all-whitespace entry gives output.mp4, an entry
\* ending in .mp4 (case-insensitively) is used unchanged, any other entry has
\* .mp4 appended; the result ends in .mp4 and normalizing it again changes
\* nothing.
C10_NormalizationOfEntry ==
    Named =>
        /\ output_name = ClaimedName(name_entry)
        /\ EndsWith(Lower(output_name), DotMp4)
        /\ NormalizeOutputName(output_name) = output_name

\* C10 amended: the same rule holds of the entry with its surrounding
\* whitespace removed (the rule is applied to the stripped entry).
C10_NormalizationOfStrippedEntry ==
    Named =>
        /\ output_name = ClaimedName(Strip(name_entry, Whitespace))
        /\ EndsWith(Lower(output_name), DotMp4)
        /\ NormalizeOutputName(output_name) = output_name

\* a padded entry with an upper-case suffix is kept, without its padding
C10_Witness ==
    /\ name_entry = <<" ", "v", ".", "M", "P", "4", " ">>
    /\ output_name = <<"v", ".", "M", "P", "4">>

====
